---------------------------- MODULE Spec2Model ----------------------------
(***************************************************************************)
(* pgkons: the navigation state machine of cmd/pgkons.                     *)
(*                                                                         *)
(* Runner.Run drives a chain of StateFn values.  A menu StateFn presents   *)
(* its children through a promptui Select (selectState); an action StateFn *)
(* fetches rows from the database and presents them through a promptui     *)
(* Select (selecter).  The database and the terminal are the environment:  *)
(* a fetch ends with an error or a number of rows, a Select ends with an   *)
(* index into the list it was given or with an error.                      *)
(***************************************************************************)
EXTENDS Integers, Sequences, FiniteSets, TLC

\* Largest number of rows a query answers with in the model.
MaxRows == 2

\* Largest number of terminal rows TIOCGWINSZ reports in the model.
MaxTermRows == 20

\* Largest number of items of a filtered prompt in the model.
MaxItems == 2

\* Largest number of keys typed into an empty search input in the model.
MaxQuery == 2

NilFn  == "nil"
NilErr == "nil"

(***************************************************************************)
(* Errors.                                                                 *)
(***************************************************************************)
\* promptui.Select.Run: ^C, ^D, or any other failure of the prompt.
SelectErrors == {"ErrInterrupt", "ErrEOF", "ErrSelectIO"}
\* sqlx SelectContext / GetContext.
FetchErrors  == {"ErrDB", "context.Canceled", "context.DeadlineExceeded"}
\* An arbitrary StateFn may return any error.
AnyErrors    == {"ErrOther"}

(***************************************************************************)
(* The navigation tree (part_000 lines 17-116).  A StateFn is named by a   *)
(* string; a state is a record [Name, Fn].                                 *)
(***************************************************************************)
State(name, f) == [Name |-> name, Fn |-> f]

playgroundState == State("PlayGround", "playgroundState")
tableState      == State("Tables", "Tables")
schemaState     == State("Schemas", "schemaState")
viewState       == State("Views", "viewState")
statsState      == State("Stats", "statsState")
exploreState    == State("Explore", "exploreState")
startStates     == <<exploreState, playgroundState>>
startState      == State("Back to Start", "startState")

schemaStates == << State("All", "Schemas"),
                   State("User Created", "SchemasUserCreated") >>
viewStates   == << State("All", "Views"),
                   State("Materialized", "MaterializedViews") >>
statStates   == << State("Table Count Per Schema", "TablesBySchema"),
                   State("Tables By Size", "TablesBySize"),
                   State("Tables By Size With Indexes", "TablesBySizeWithIndex"),
                   State("Table Row Counts", "TablesByRows"),
                   State("Empty Tables", "TablesEmpty"),
                   State("Tables Grouped By Rows", "TablesGroupByRows"),
                   State("Column Name Frequencies", "ColumnsFrequency"),
                   State("Postgres Version", "Version") >>
exploreStates == <<schemaState, tableState, viewState, statsState>>

\* StateFns whose body is a call of selectState.  "emptyMenu" is
\* selectState called with no states (the len(states) == 0 branch).
MenuFns == {"startState", "exploreState", "schemaState", "viewState",
            "statsState", "emptyMenu"}

\* StateFns whose body is `return nil, r.<Method>(ctx)`.
ActionFns == {"Schemas", "SchemasUserCreated", "Tables", "Views",
              "MaterializedViews", "TablesBySchema", "TablesBySize",
              "TablesBySizeWithIndex", "TablesByRows", "TablesEmpty",
              "TablesGroupByRows", "ColumnsFrequency", "Version"}

\* "anyFn" stands for a StateFn outside the shipped tree: the type allows
\* any function returning (StateFn, error).
AllFns == MenuFns \cup ActionFns \cup {"playgroundState", "anyFn"}

\* The label a menu StateFn hands to selectState.
MenuLabel(f) ==
    CASE f = "startState"   -> "Options"
      [] f = "exploreState" -> "Where too?"
      [] f = "schemaState"  -> "Schema Options"
      [] f = "viewState"    -> "Views"
      [] f = "statsState"   -> "Stats"
      [] OTHER              -> "Empty"

\* The label an action hands to selecter.
ActionLabel(f) ==
    CASE f = "Schemas"               -> "Schemas"
      [] f = "SchemasUserCreated"    -> "Schemas"
      [] f = "Tables"                -> "Tables"
      [] f = "Views"                 -> "Views"
      [] f = "MaterializedViews"     -> "Views"
      [] f = "TablesBySchema"        -> "Tables by Schema"
      [] f = "TablesBySize"          -> "Tables by Size"
      [] f = "TablesBySizeWithIndex" -> "Tables by Size with Index"
      [] f = "TablesByRows"          -> "Tables by Rows"
      [] f = "TablesEmpty"           -> "Empty Tables"
      [] f = "TablesGroupByRows"     -> "Tables Grouped By Rows"
      [] f = "ColumnsFrequency"      -> "Column Frequencies"
      [] OTHER                       -> "Postgres Version"

VARIABLES
    root,      \* the StateFn held by the package variable startState.Fn
    pc,        \* where Run is: "call", "fetch", "select", "ret", "done";
               \* around Run, "start" (main before Run), "exit", "killed"
    fn,        \* Run's variable fn
    err,       \* Run's variable err
    selBy,     \* which function opened the running Select
    selLabel,  \* Label of the running Select
    selItems,  \* Items of the running Select
    selRes,    \* what the last Select returned: [i, err]
    fetchRes,  \* what the last fetch returned: [rows, err]
    cycle,     \* events since the root StateFn was last invoked, each naming the StateFn it happened in
    returned,  \* the value Run returned, once pc = "done"
    termSize,  \* what terminalSize() returned to the last selectSize: [height, err]
    selSize,   \* Size of the running Select
    selSearch, \* StartInSearchMode of the running Select
    written,   \* the bytes of the last fmt.Print to the terminal
    searchBy,  \* the searcher of the prompt being filtered
    searchItems, \* the items its searcher closes over
    query,     \* the input typed into the prompt so far
    visible,   \* the indexes of the items the prompt shows for that input
    ctxDone,   \* whether the context of systemCtx() is cancelled
    sigs,      \* the channel sigs of systemCtx()
    relay,     \* the goroutine of systemCtx(): "waiting" at <-sigs, or "done"
    cancels,   \* how many times cancel() was called
    lastSig,   \* the last signal the operating system delivered
    prog,      \* which main package runs
    debug,     \* *debug
    startup,   \* the errors main met before Run: [cfg, open, ping]
    exitCode,  \* the exit code of the process, "none" while it runs
    logged,    \* what log.Println was given, in order
    konsdir,   \* whether the directory $HOME/.pgkons exists
    configJSON, \* the file config.json: [exists, bytes]
    saved,     \* the profiles saved into config.json so far: [ok, list]
    cfgRet     \* the last call of configFile or saveNewConfig and what it returned

navVars == <<root, pc, fn, err, selBy, selLabel, selItems, selRes, fetchRes,
             cycle, returned, termSize, selSize, selSearch, written>>

searchVars == <<searchBy, searchItems, query, visible>>

sigVars == <<ctxDone, sigs, relay, cancels, lastSig>>

mainVars == <<prog, debug, startup, exitCode, logged>>

cfgVars == <<konsdir, configJSON, saved, cfgRet>>

procVars == <<ctxDone, sigs, relay, cancels, lastSig,
              prog, debug, startup, exitCode, logged,
              konsdir, configJSON, saved, cfgRet>>

vars == <<root, pc, fn, err, selBy, selLabel, selItems, selRes, fetchRes,
          cycle, returned, termSize, selSize, selSearch, written,
          searchBy, searchItems, query, visible,
          ctxDone, sigs, relay, cancels, lastSig,
          prog, debug, startup, exitCode, logged,
          konsdir, configJSON, saved, cfgRet>>

\* No call of configFile or saveNewConfig is on record.
NoCfgCall == [op |-> "none", fault |-> "none", arg |-> << >>, cfgs |-> << >>, err |-> NilErr]

\* config.json and its directory as a first run finds them.
NoConfigYet ==
    /\ konsdir = FALSE
    /\ configJSON = [exists |-> FALSE, bytes |-> << >>]
    /\ saved = [ok |-> FALSE, list |-> << >>]
    /\ cfgRet = NoCfgCall

Event(op, who, n, e) == [op |-> op, who |-> who, n |-> n, e |-> e]

NoSel   == [i |-> 0, err |-> NilErr]
NoFetch == [rows |-> 0, err |-> NilErr]

\* A root menu that drops PlayGround once a query has been answered.
MenuStatesPruned(f) ==
    CASE f = "startState"   -> IF fetchRes = NoFetch THEN startStates ELSE <<exploreState>>
      [] f = "exploreState" -> exploreStates
      [] f = "schemaState"  -> schemaStates
      [] f = "viewState"    -> viewStates
      [] f = "statsState"   -> statStates
      [] OTHER              -> << >>

\* A tree with the Views menu offered by the Schemas menu as well.
MenuStatesDeeper(f) ==
    CASE f = "startState"   -> startStates
      [] f = "exploreState" -> exploreStates
      [] f = "schemaState"  -> Append(schemaStates, viewState)
      [] f = "viewState"    -> viewStates
      [] f = "statsState"   -> statStates
      [] OTHER              -> << >>

\* The states a menu StateFn hands to selectState.
MenuStates(f) ==
    CASE f = "startState"   -> startStates
      [] f = "exploreState" -> exploreStates
      [] f = "schemaState"  -> schemaStates
      [] f = "viewState"    -> viewStates
      [] f = "statsState"   -> statStates
      [] OTHER              -> << >>


(***************************************************************************)
(* Runner.Run (main.go lines 102-111).                                     *)
(***************************************************************************)
\* Run without its bounce: (nil, nil) ends the loop.
BounceDropped(f, e) == f

\* Run bouncing to the first child of the root instead of the root.
BounceToExplore(f, e) == IF f = NilFn /\ e = NilErr THEN "exploreState" ELSE f

\* if fn == nil && err == nil { fn = startState.Fn }
Bounce(f, e) == IF f = NilFn /\ e = NilErr THEN root ELSE f

\* A loop that goes on whatever fn is.
LoopCondAlways(f) == TRUE

\* the loop condition: fn != nil
LoopCond(f) == f # NilFn

\* `fn, err = fn(ctx, r)`: the transition has returned (f, e).
Return(f, e) ==
    /\ fn' = f
    /\ err' = e
    /\ pc' = "ret"

\* The statements of Run after a transition returned: the bounce and the
\* loop test, then either the next iteration or `return err`.
RunStep ==
    /\ pc = "ret"
    /\ fn' = Bounce(fn, err)
    /\ IF LoopCond(fn')
          THEN pc' = "call" /\ returned' = returned
          ELSE pc' = "done" /\ returned' = err
    /\ UNCHANGED <<root, err, selBy, selLabel, selItems, selRes, fetchRes, cycle>>
    /\ UNCHANGED <<termSize, selSize, selSearch, written>>
    /\ UNCHANGED <<searchVars, procVars>>

\* Events logged when StateFn f is invoked: the log starts again at the root.
Invoked(f) ==
    IF f = root THEN <<Event("call", f, 0, NilErr)>>
    ELSE Append(cycle, Event("call", f, 0, NilErr))


(***************************************************************************)
(* promptui.Select.Run, as selectState and selecter observe it: an index   *)
(* into Items with no error, or (0, err).  An empty list offers nothing to *)
(* choose, so only the errors are left.                                    *)
(***************************************************************************)
SelectOutcomes(items) ==
    {[i |-> k, err |-> NilErr] : k \in 0 .. (Len(items) - 1)}
        \cup {[i |-> 0, err |-> e] : e \in SelectErrors}

(***************************************************************************)
(* selectSize and terminalSize (main.go lines 586-592, 623-629).           *)
(***************************************************************************)
\* What terminalSize() returns: the rows of the window, or (-1, -1, err).
TermSizes ==
    {[height |-> h, err |-> NilErr] : h \in 0 .. MaxTermRows}
        \cup {[height |-> -1, err |-> "ErrIoctl"]}

\* A *promptui.SelectTemplates: nil, or its Details as a sequence of
\* pieces, "\n" for a newline and "text" for the text between newlines.
NilTemplates == [isNil |-> TRUE, Details |-> << >>]
Templates(details) == [isNil |-> FALSE, Details |-> details]

\* strings.Count(s, sub) for a one-piece sub.
Count(s, sub) == Len(SelectSeq(s, LAMBDA c : c = sub))

\* Details of n lines, each opened by a newline.
DetailsOf(n) == [k \in 1 .. (2 * n) |-> IF k % 2 = 1 THEN "\n" ELSE "text"]

\* The templates built by selectState and by each Runner method.
MenuTemplates == Templates(<< >>)
ActionTemplates(f) ==
    CASE f \in {"Schemas", "Tables", "ColumnsFrequency"} -> Templates(DetailsOf(4))
      [] f = "SchemasUserCreated"                        -> Templates(DetailsOf(3))
      [] f = "Version"                                   -> NilTemplates
      [] OTHER                                           -> Templates(<< >>)

\* selectSize clamped at one row.
selectSizeClamped(ts, templates) ==
    IF ts.err # NilErr \/ templates.isNil \/ ts.height < 4
        THEN 1
        ELSE IF ts.height - 4 - Count(templates.Details, "\n") < 1
                THEN 1
                ELSE ts.height - 4 - Count(templates.Details, "\n")

\* selectSize with the guard of an older revision, height < 3.
selectSizeBelow3(ts, templates) ==
    IF ts.err # NilErr \/ templates.isNil \/ ts.height < 3
        THEN 1
        ELSE ts.height - 4 - Count(templates.Details, "\n")

\* selectSize counting the Details lines twice.
selectSizeTwice(ts, templates) ==
    IF ts.err # NilErr \/ templates.isNil \/ ts.height < 4
        THEN 1
        ELSE ts.height - 4 - 2 * Count(templates.Details, "\n")

\* selectSize, given what terminalSize() returned.
selectSize(ts, templates) ==
    IF ts.err # NilErr \/ templates.isNil \/ ts.height < 4
        THEN 1
        ELSE ts.height - 4 - Count(templates.Details, "\n")

\* selecter starting every prompt in search mode, as selectState does.
StartInSearchModeAlways(searcherIsNil) == TRUE

\* StartInSearchMode: searcher != nil
StartInSearchMode(searcherIsNil) == ~searcherIsNil

\* Opening a Select: label, items, size and mode are fixed for the whole
\* prompt; the size is selectSize(templates) for the window of the moment.
OpenSelect(by, label, items, templates, searchMode) ==
    /\ selBy' = by
    /\ selLabel' = label
    /\ selItems' = items
    /\ \E ts \in TermSizes :
          /\ termSize' = ts
          /\ selSize' = selectSize(ts, templates)
    /\ selSearch' = searchMode
    /\ pc' = "select"

(***************************************************************************)
(* overwritePrevLine (main.go lines 613-621).  A byte is named by a        *)
(* string: "ESC" is \033, "CR" is \r, the others are themselves.           *)
(***************************************************************************)
escPrevLine    == <<"ESC", "[", "F">>
clearLine      == <<"2", "K">>
carriageReturn == <<"CR">>

\* what overwritePrevLine hands to fmt.Print
overwritePrevLine == escPrevLine \o clearLine \o carriageReturn

(***************************************************************************)
(* selectState (part_000 lines 118-154).                                   *)
(***************************************************************************)
\* selectState returning the Fn of the state after the chosen one.
selectStateResultOffByOne(states, out) ==
    IF out.err # NilErr
        THEN [next |-> NilFn, err |-> out.err]
        ELSE [next |-> states[((out.i + 1) % Len(states)) + 1].Fn, err |-> NilErr]

\* what selectState returns once sel.Run returned out
selectStateResult(states, out) ==
    IF out.err # NilErr
        THEN [next |-> NilFn, err |-> out.err]
        ELSE [next |-> states[out.i + 1].Fn, err |-> NilErr]

\* overwritePrevLine is reached only past the error return
selectStateErases(out) == out.err = NilErr

\* selectState without its guard for an empty list.
NoStatesUnchecked(states) == FALSE

\* if len(states) == 0 { return nil, nil }
NoStates(states) == Len(states) = 0

\* A menu StateFn is invoked: selectState up to sel.Run().
CallMenu ==
    /\ pc = "call"
    /\ fn \in MenuFns
    /\ LET states == MenuStates(fn)
           log    == Invoked(fn)
       IN  IF NoStates(states)
              THEN /\ Return(NilFn, NilErr)
                   /\ cycle' = log
                   /\ UNCHANGED <<selBy, selLabel, selItems, termSize, selSize, selSearch>>
              ELSE /\ OpenSelect("selectState", MenuLabel(fn), states, MenuTemplates, TRUE)
                   /\ cycle' = Append(log, Event("select", fn, Len(states), NilErr))
                   /\ UNCHANGED <<fn, err>>
    /\ UNCHANGED <<root, selRes, fetchRes, returned, written>>
    /\ UNCHANGED <<searchVars, procVars>>

\* sel.Run() returns inside selectState; selectState returns to Run.
SelectStateReturn ==
    /\ pc = "select"
    /\ selBy = "selectState"
    /\ \E out \in SelectOutcomes(selItems) :
          LET res == selectStateResult(selItems, out)
              ran == Append(cycle, Event("selected", fn, out.i, out.err))
          IN  /\ selRes' = out
              /\ cycle' = IF selectStateErases(out)
                             THEN Append(ran, Event("erase", fn, 0, NilErr))
                             ELSE ran
              /\ written' = IF selectStateErases(out) THEN overwritePrevLine ELSE written
              /\ Return(res.next, res.err)
    /\ UNCHANGED <<root, selBy, selLabel, selItems, fetchRes, returned>>
    /\ UNCHANGED <<termSize, selSize, selSearch>>
    /\ UNCHANGED <<searchVars, procVars>>

(***************************************************************************)
(* The Runner methods behind the action StateFns (main.go lines 117-569).  *)
(***************************************************************************)
\* Methods that wrap ctx in context.WithTimeout(ctx, 5*time.Second).
HasTimeout(f) == f \in {"Schemas", "SchemasUserCreated", "Tables", "TablesBySize"}

\* What the query of f can answer: SELECT version() answers one row.
RowCounts(f) == IF f = "Version" THEN {1} ELSE 0 .. MaxRows

\* A method that hands context.Background() to the query of Version.
PassesCtxButVersion(f) == f # "Version"

\* Methods whose query is given the ctx of the StateFn, or a child of it:
\* r.db.SelectContext(ctx, ...), r.db.GetContext(ctx, ...).
PassesCtx(f) == f \in ActionFns

\* Whether the context the query of f runs under is cancelled.
QueryCtxDone(f) == ctxDone /\ PassesCtx(f)

\* The errors the context of the query of f can end it with: Canceled once
\* the context of systemCtx() is cancelled, DeadlineExceeded where the
\* method set a deadline.
CtxErrors(f) ==
    (IF QueryCtxDone(f) THEN {"context.Canceled"} ELSE {})
        \cup (IF HasTimeout(f) THEN {"context.DeadlineExceeded"} ELSE {})

FetchErrorsOf(f) == {"ErrDB"} \cup CtxErrors(f)

\* What the query of f can return: rows while its context is live, else an
\* error.  A query that ends before the cancellation is observed is a query
\* that returned before the context was cancelled.
FetchOutcomes(f) ==
    (IF QueryCtxDone(f) THEN {} ELSE {[rows |-> n, err |-> NilErr] : n \in RowCounts(f)})
        \cup {[rows |-> 0, err |-> e] : e \in FetchErrorsOf(f)}

\* view{ViewSchema: "back"}
BackView == [ViewSchema |-> "back", Name |-> ""]

\* One fetched row of f.
Row(f) ==
    CASE f \in {"Views", "MaterializedViews"} -> [ViewSchema |-> "public", Name |-> "v"]
      [] f = "Version"                        -> [Version |-> "PostgreSQL"]
      [] OTHER                                -> [Schema |-> "public", Name |-> "t"]

\* The sentinel added by Views alone.
AppendsBackViewsOnly(f) == f = "Views"

\* Methods with `if len(views) == 0 { views = append(views, view{ViewSchema: "back"}) }`.
AppendsBack(f) == f \in {"Views", "MaterializedViews"}

\* The list a method hands to selecter after a fetch of n rows.
ActionItems(f, n) ==
    IF n = 0 /\ AppendsBack(f)
        THEN <<BackView>>
        ELSE [k \in 1 .. n |-> Row(f)]

\* Methods that pass a nil searcher to selecter.
NilSearcher(f) == f \in {"TablesGroupByRows", "Version"}

\* An action StateFn is invoked: the method up to its query.
CallAction ==
    /\ pc = "call"
    /\ fn \in ActionFns
    /\ pc' = "fetch"
    /\ cycle' = Append(Invoked(fn), Event("fetch", fn, 0, NilErr))
    /\ UNCHANGED <<root, fn, err, selBy, selLabel, selItems, selRes, fetchRes, returned>>
    /\ UNCHANGED <<termSize, selSize, selSearch, written>>
    /\ UNCHANGED <<searchVars, procVars>>

\* A method that goes on to selecter whatever the query returned.
FetchFailsIgnored(out) == FALSE

\* whether the method returns the fetch error instead of going on to selecter
FetchFails(out) == out.err # NilErr

\* The query returns out: the method returns its error, or opens selecter.
FetchReturns(out) ==
    /\ pc = "fetch"
    /\ LET log == Append(cycle, Event("fetched", fn, out.rows, out.err))
       IN  /\ fetchRes' = out
           /\ IF FetchFails(out)
                 THEN /\ Return(NilFn, out.err)
                      /\ cycle' = log
                      /\ UNCHANGED <<selBy, selLabel, selItems, termSize, selSize, selSearch>>
                 ELSE LET items == ActionItems(fn, out.rows)
                      IN  /\ OpenSelect("selecter", ActionLabel(fn), items,
                                        ActionTemplates(fn),
                                        StartInSearchMode(NilSearcher(fn)))
                          /\ cycle' = Append(log, Event("select", fn, Len(items), NilErr))
                          /\ UNCHANGED <<fn, err>>
    /\ UNCHANGED <<root, selRes, returned, written>>
    /\ UNCHANGED <<searchVars, procVars>>

\* The query returns, with any of its outcomes.
FetchReturn ==
    /\ pc = "fetch"
    /\ \E out \in FetchOutcomes(fn) : FetchReturns(out)

\* The query is ended by its context: this needs no answer of the database.
FetchExpires ==
    /\ pc = "fetch"
    /\ \E e \in CtxErrors(fn) : FetchReturns([rows |-> 0, err |-> e])

(***************************************************************************)
(* selecter (main.go lines 571-584).                                       *)
(***************************************************************************)
\* selecter dropping the error of sel.Run.
selecterResultSwallow(out) == [next |-> NilFn, err |-> NilErr]

\* A successful action handing control to the Schemas menu.
selecterResultToSchemas(out) ==
    [next |-> IF out.err = NilErr THEN "schemaState" ELSE NilFn, err |-> out.err]

\* An action whose StateFn asks to be run again when its prompt failed.
selecterResultRetry(out) ==
    [next |-> IF out.err = NilErr THEN NilFn ELSE fn, err |-> NilErr]

\* selecter reporting every failure of its prompt as an interrupt.
selecterResultAsInterrupt(out) ==
    [next |-> NilFn, err |-> IF out.err = NilErr THEN NilErr ELSE "ErrInterrupt"]

\* what the action StateFn returns once sel.Run returned out:
\* `_, _, err := sel.Run(); overwritePrevLine(); return err` under
\* `return nil, r.<Method>(ctx)`.
selecterResult(out) == [next |-> NilFn, err |-> out.err]

\* sel.Run() returns inside selecter; the method and its StateFn return.
SelecterReturn ==
    /\ pc = "select"
    /\ selBy = "selecter"
    /\ \E out \in SelectOutcomes(selItems) :
          LET res == selecterResult(out)
          IN  /\ selRes' = out
              /\ cycle' = cycle \o << Event("selected", fn, out.i, out.err),
                                      Event("erase", fn, 0, NilErr) >>
              /\ Return(res.next, res.err)
    /\ written' = overwritePrevLine
    /\ UNCHANGED <<root, selBy, selLabel, selItems, fetchRes, returned>>
    /\ UNCHANGED <<termSize, selSize, selSearch>>
    /\ UNCHANGED <<searchVars, procVars>>

(***************************************************************************)
(* playgroundState (part_000 lines 110-115) and an arbitrary StateFn.      *)
(***************************************************************************)
\* A PlayGround wired to a query, as an action is.
CallPlaygroundQueries ==
    /\ pc = "call"
    /\ fn = "playgroundState"
    /\ pc' = "fetch"
    /\ cycle' = Append(Invoked(fn), Event("fetch", fn, 0, NilErr))
    /\ UNCHANGED <<root, fn, err, selBy, selLabel, selItems, selRes, fetchRes, returned>>
    /\ UNCHANGED <<termSize, selSize, selSearch, written>>
    /\ UNCHANGED <<searchVars, procVars>>

CallPlayground ==
    /\ pc = "call"
    /\ fn = "playgroundState"
    /\ Return(NilFn, NilErr)
    /\ cycle' = Invoked(fn)
    /\ UNCHANGED <<root, selBy, selLabel, selItems, selRes, fetchRes, returned>>
    /\ UNCHANGED <<termSize, selSize, selSearch, written>>
    /\ UNCHANGED <<searchVars, procVars>>

\* The StateFns an arbitrary StateFn may name as next.
AnyNext == {NilFn, "anyFn", "emptyMenu", "playgroundState"}

CallAnyFn ==
    /\ pc = "call"
    /\ fn = "anyFn"
    /\ \E next \in AnyNext, e \in {NilErr} \cup AnyErrors : Return(next, e)
    /\ cycle' = Invoked(fn)
    /\ UNCHANGED <<root, selBy, selLabel, selItems, selRes, fetchRes, returned>>
    /\ UNCHANGED <<termSize, selSize, selSearch, written>>
    /\ UNCHANGED <<searchVars, procVars>>

(***************************************************************************)
(* systemCtx (main.go lines 637-646, part_001 lines 55-64).                *)
(***************************************************************************)
\* The signals the operating system may deliver.
Signals == {"SIGINT", "SIGTERM", "SIGKILL"}

\* signal.Notify(sigs, os.Kill, os.Interrupt)
Notified == {"SIGKILL", "SIGINT"}

\* SIGKILL is never handed to a process: it ends it.
Trappable(sig) == sig # "SIGKILL"

\* sigs := make(chan os.Signal, 1)
SigsCap == 1

\* A signal reaches the process.  A trappable signal Notify was told of is
\* put into sigs unless sigs is full (Notify never blocks); any other
\* signal of the model ends the process.
Signal ==
    /\ pc \notin {"start", "exit", "killed"}
    /\ \E sig \in Signals :
          /\ lastSig' = sig
          /\ IF sig \in Notified /\ Trappable(sig)
                THEN /\ sigs' = IF Len(sigs) < SigsCap THEN Append(sigs, sig) ELSE sigs
                     /\ pc' = pc
                ELSE /\ sigs' = sigs
                     /\ pc' = "killed"
    /\ UNCHANGED <<root, fn, err, selBy, selLabel, selItems, selRes, fetchRes,
                   cycle, returned, termSize, selSize, selSearch, written>>
    /\ UNCHANGED <<ctxDone, relay, cancels>>
    /\ UNCHANGED <<searchVars, mainVars, cfgVars>>

\* go func() { <-sigs; cancel() }()
Relay ==
    /\ pc \notin {"start", "exit", "killed"}
    /\ relay = "waiting"
    /\ sigs # << >>
    /\ sigs' = Tail(sigs)
    /\ cancels' = cancels + 1
    /\ ctxDone' = TRUE
    /\ relay' = "done"
    /\ UNCHANGED lastSig
    /\ UNCHANGED <<navVars, searchVars, mainVars, cfgVars>>

(***************************************************************************)
(* main (main.go lines 25-55, part_001 lines 16-53).                       *)
(***************************************************************************)
\* The two main packages of the repository.
Progs == {"cmd/pgkons", "part_001"}

\* var errFinished = errors.New("program to exit")
errFinished == "errFinished"

NoStartup == [cfg |-> NilErr, open |-> NilErr, ping |-> NilErr]

\* main leaves before runner.Run: after newDBCFG only under *debug, after
\* sql.Open and after db.PingContext always.
StartupExits(d, st) ==
    \/ st.cfg # NilErr /\ d
    \/ st.open # NilErr
    \/ st.ping # NilErr

\* What main logs before runner.Run: the newDBCFG error under *debug, the
\* sql.Open error through check, the PingContext error unconditionally.
StartupLogs(d, st) ==
    IF st.cfg # NilErr /\ d THEN <<st.cfg>>
    ELSE IF st.open # NilErr THEN (IF d THEN <<st.open>> ELSE << >>)
    ELSE IF st.ping # NilErr THEN <<st.ping>>
    ELSE << >>

\* The errors main can meet before runner.Run, a call it does not reach
\* having none.  Only part_001 pings.
StartupErrors(p, d) ==
    { st \in [cfg : {NilErr, "ErrConfig"}, open : {NilErr, "ErrOpen"},
              ping : {NilErr, "ErrPing"}] :
        /\ (st.cfg # NilErr /\ d) => (st.open = NilErr /\ st.ping = NilErr)
        /\ st.open # NilErr => st.ping = NilErr
        /\ p = "cmd/pgkons" => st.ping = NilErr }

\* main from its first line to the call of runner.Run or to os.Exit(1).
Startup ==
    /\ pc = "start"
    /\ \E st \in StartupErrors(prog, debug) :
          /\ startup' = st
          /\ logged' = StartupLogs(debug, st)
          /\ IF StartupExits(debug, st)
                THEN /\ pc' = "exit"
                     /\ exitCode' = "1"
                     /\ fn' = fn
                ELSE /\ pc' = "call"
                     /\ exitCode' = exitCode
                     /\ fn' = root
    /\ UNCHANGED <<root, err, selBy, selLabel, selItems, selRes, fetchRes,
                   cycle, returned, termSize, selSize, selSearch, written>>
    /\ UNCHANGED <<prog, debug>>
    /\ UNCHANGED <<searchVars, sigVars, cfgVars>>

\* if *debug && err != nil && err != context.Canceled && err != errFinished
\* (part_001 has no errFinished)
RunErrorLogged(p, d, e) ==
    /\ d
    /\ e # NilErr
    /\ e # "context.Canceled"
    /\ p = "cmd/pgkons" => e # errFinished

\* check(err)
check(d, e) == IF e # NilErr /\ d THEN <<e>> ELSE << >>

\* main after runner.Run returned: the log of its error, the deferred
\* check(db.Close()), and the return from main.
Exit ==
    /\ pc = "done"
    /\ \E closeErr \in {NilErr, "ErrClose"} :
          logged' = logged
                      \o (IF RunErrorLogged(prog, debug, returned) THEN <<returned>> ELSE << >>)
                      \o check(debug, closeErr)
    /\ exitCode' = "0"
    /\ pc' = "exit"
    /\ UNCHANGED <<root, fn, err, selBy, selLabel, selItems, selRes, fetchRes,
                   cycle, returned, termSize, selSize, selSearch, written>>
    /\ UNCHANGED <<prog, debug, startup>>
    /\ UNCHANGED <<searchVars, sigVars, cfgVars>>

(***************************************************************************)
(* The specification.                                                      *)
(***************************************************************************)
\* The values the package variable startState.Fn is run with: the shipped
\* root menu, a menu without children, an arbitrary StateFn.
Roots == {"startState", "emptyMenu", "anyFn"}

\* The context Run is given: live, or cancelled already by a signal that
\* came between systemCtx() and runner.Run.
CtxAtRun ==
    \/ ctxDone = FALSE /\ relay = "waiting" /\ cancels = 0 /\ lastSig = "none"
    \/ ctxDone = TRUE /\ relay = "done" /\ cancels = 1 /\ lastSig = "SIGINT"

Init ==
    /\ root \in Roots
    /\ pc = "call"
    /\ fn = root
    /\ err = NilErr
    /\ selBy = "none"
    /\ selLabel = ""
    /\ selItems = << >>
    /\ selRes = NoSel
    /\ fetchRes = NoFetch
    /\ cycle = << >>
    /\ returned = NilErr
    /\ termSize = [height |-> 0, err |-> NilErr]
    /\ selSize = 0
    /\ selSearch = FALSE
    /\ written = << >>
    /\ searchBy = "none"
    /\ searchItems = << >>
    /\ query = << >>
    /\ visible = << >>
    /\ CtxAtRun
    /\ sigs = << >>
    /\ prog = "cmd/pgkons"
    /\ debug = FALSE
    /\ startup = NoStartup
    /\ exitCode = "none"
    /\ logged = << >>
    /\ NoConfigYet

Next ==
    \/ CallMenu
    \/ SelectStateReturn
    \/ CallAction
    \/ FetchReturn
    \/ SelecterReturn
    \/ CallPlayground
    \/ CallAnyFn
    \/ RunStep

Spec == Init /\ [][Next]_vars

(***************************************************************************)
(* Run under signals: the shipped tree, the relay of systemCtx() running   *)
(* beside Run.  The steps the program takes by itself are fair: Run's own  *)
(* statements, the relay once a signal is queued, a query ended by its     *)
(* context.  A key pressed at a prompt, an answer of the database and a    *)
(* signal are the environment's and may never come.                        *)
(***************************************************************************)
LiveInit ==
    /\ root = "startState"
    /\ pc = "call"
    /\ fn = root
    /\ err = NilErr
    /\ selBy = "none"
    /\ selLabel = ""
    /\ selItems = << >>
    /\ selRes = NoSel
    /\ fetchRes = NoFetch
    /\ cycle = << >>
    /\ returned = NilErr
    /\ termSize = [height |-> 0, err |-> NilErr]
    /\ selSize = 0
    /\ selSearch = FALSE
    /\ written = << >>
    /\ searchBy = "none"
    /\ searchItems = << >>
    /\ query = << >>
    /\ visible = << >>
    /\ ctxDone = FALSE
    /\ sigs = << >>
    /\ relay = "waiting"
    /\ cancels = 0
    /\ lastSig = "none"
    /\ prog = "cmd/pgkons"
    /\ debug = FALSE
    /\ startup = NoStartup
    /\ exitCode = "none"
    /\ logged = << >>
    /\ NoConfigYet

LiveNext ==
    \/ CallMenu
    \/ SelectStateReturn
    \/ CallAction
    \/ FetchReturn
    \/ SelecterReturn
    \/ CallPlayground
    \/ RunStep
    \/ Signal
    \/ Relay

Fairness ==
    /\ WF_vars(CallMenu)
    /\ WF_vars(CallAction)
    /\ WF_vars(CallPlayground)
    /\ WF_vars(RunStep)
    /\ WF_vars(Relay)
    /\ WF_vars(FetchExpires)

LiveSpec == LiveInit /\ [][LiveNext]_vars /\ Fairness

(***************************************************************************)
(* Run on the shipped tree when every call returns: each prompt is         *)
(* answered in the end and each query ends, and Run takes its own steps.   *)
(***************************************************************************)
RunInit ==
    /\ Init
    /\ root = "startState"

RunNext ==
    \/ CallMenu
    \/ SelectStateReturn
    \/ CallAction
    \/ FetchReturn
    \/ SelecterReturn
    \/ CallPlayground
    \/ RunStep

RunFairness ==
    /\ WF_vars(CallMenu)
    /\ WF_vars(SelectStateReturn)
    /\ WF_vars(CallAction)
    /\ WF_vars(FetchReturn)
    /\ WF_vars(SelecterReturn)
    /\ WF_vars(CallPlayground)
    /\ WF_vars(RunStep)

FairRunSpec == RunInit /\ [][RunNext]_vars /\ RunFairness

\* Run over a tree whose root is the shipped menu or a menu without children.
EmptyRootInit ==
    /\ Init
    /\ root \in {"startState", "emptyMenu"}

EmptyRootSpec == EmptyRootInit /\ [][RunNext]_vars /\ RunFairness

(***************************************************************************)
(* The process: main of either package, from its first line to its exit.   *)
(***************************************************************************)
MainInit ==
    /\ root = "startState"
    /\ pc = "start"
    /\ fn = NilFn
    /\ err = NilErr
    /\ selBy = "none"
    /\ selLabel = ""
    /\ selItems = << >>
    /\ selRes = NoSel
    /\ fetchRes = NoFetch
    /\ cycle = << >>
    /\ returned = NilErr
    /\ termSize = [height |-> 0, err |-> NilErr]
    /\ selSize = 0
    /\ selSearch = FALSE
    /\ written = << >>
    /\ searchBy = "none"
    /\ searchItems = << >>
    /\ query = << >>
    /\ visible = << >>
    /\ ctxDone = FALSE
    /\ sigs = << >>
    /\ relay = "waiting"
    /\ cancels = 0
    /\ lastSig = "none"
    /\ prog \in Progs
    /\ debug \in BOOLEAN
    /\ startup = NoStartup
    /\ exitCode = "none"
    /\ logged = << >>
    /\ NoConfigYet

MainNext ==
    \/ Startup
    \/ CallMenu
    \/ SelectStateReturn
    \/ CallAction
    \/ FetchReturn
    \/ SelecterReturn
    \/ CallPlayground
    \/ RunStep
    \/ Signal
    \/ Relay
    \/ Exit

MainSpec == MainInit /\ [][MainNext]_vars

TypeOK ==
    /\ root \in Roots
    /\ pc \in {"call", "fetch", "select", "ret", "done", "start", "exit", "killed"}
    /\ ctxDone \in BOOLEAN
    /\ Len(sigs) <= SigsCap
    /\ relay \in {"waiting", "done"}
    /\ lastSig \in Signals \cup {"none"}
    /\ prog \in Progs
    /\ debug \in BOOLEAN
    /\ exitCode \in {"none", "0", "1"}
    /\ fn \in AllFns \cup {NilFn}
    /\ err \in {NilErr} \cup SelectErrors \cup FetchErrors \cup AnyErrors
    /\ selBy \in {"none", "selectState", "selecter"}
    /\ returned \in {NilErr} \cup SelectErrors \cup FetchErrors \cup AnyErrors

(***************************************************************************)
(* The searchers (part_000 lines 130-135, main.go lines 142-147, 214-221,  *)
(* 340-345).  A Go string is a sequence of one-character strings.          *)
(***************************************************************************)
Upper == <<"A", "B", "C", "D", "E", "F", "G", "H", "I", "J", "K", "L", "M",
           "N", "O", "P", "Q", "R", "S", "T", "U", "V", "W", "X", "Y", "Z">>
Lower == <<"a", "b", "c", "d", "e", "f", "g", "h", "i", "j", "k", "l", "m",
           "n", "o", "p", "q", "r", "s", "t", "u", "v", "w", "x", "y", "z">>

ToLowerChar(c) ==
    IF \E k \in 1 .. Len(Upper) : Upper[k] = c
        THEN Lower[CHOOSE k \in 1 .. Len(Upper) : Upper[k] = c]
        ELSE c

\* strings.ToLower
ToLower(str) == [k \in 1 .. Len(str) |-> ToLowerChar(str[k])]

\* strings.Replace(str, old, "", -1) for a one-character old
ReplaceAll(str, old) == SelectSeq(str, LAMBDA c : c # old)

\* A Contains that finds nothing for an empty substring.
ContainsNonEmpty(str, sub) ==
    /\ sub # << >>
    /\ \E k \in 0 .. (Len(str) - Len(sub)) : SubSeq(str, k + 1, k + Len(sub)) = sub

\* strings.Contains
Contains(str, sub) ==
    \E k \in 0 .. (Len(str) - Len(sub)) : SubSeq(str, k + 1, k + Len(sub)) = sub

\* A searcher indexing the list from its other end.
ItemAtMirrored(items, index) == items[Len(items) - index]

\* items[index], Go's index counting from 0
ItemAt(items, index) == items[index + 1]

\* A searcher that lower-cases the item alone.
NormalInputNoLower(input) == ReplaceAll(input, " ")

\* input = strings.Replace(strings.ToLower(input), " ", "", -1)
NormalInput(input) == ReplaceAll(ToLower(input), " ")

\* The text a searcher looks into: the name (selectState, Schemas,
\* SchemasUserCreated, ColumnsFrequency), the schema (TablesBySchema), or
\* schema + "." + name (Tables, Views and the table statistics).
SearchText(by, item) ==
    CASE by = "Name"   -> ReplaceAll(ToLower(item.Name), " ")
      [] by = "Schema" -> ReplaceAll(ToLower(item.Schema), " ")
      [] OTHER         -> ReplaceAll(ToLower(item.Schema), " ") \o <<".">>
                              \o ReplaceAll(ToLower(item.Name), " ")

Searchers == {"Name", "Schema", "SchemaDotName"}

\* searcher := func(input string, index int) bool, closed over items
searcher(by, items, input, index) ==
    Contains(SearchText(by, ItemAt(items, index)), NormalInput(input))

\* The prompt's filter: the indexes, in list order, its Searcher accepts.
Filter(by, items, input) ==
    SelectSeq([k \in 1 .. Len(items) |-> k - 1],
              LAMBDA i : searcher(by, items, input, i))

\* Item texts of the model.
TableCountPerSchema ==
    <<"T", "a", "b", "l", "e", " ", "C", "o", "u", "n", "t", " ",
      "P", "e", "r", " ", "S", "c", "h", "e", "m", "a">>

ItemPool ==
    { [Schema |-> << >>,           Name |-> TableCountPerSchema],
      [Schema |-> <<"P", " ", "q">>, Name |-> <<"a", " ", "B">>],
      [Schema |-> <<"p">>,         Name |-> <<"a", "\t", "b">>],
      [Schema |-> <<"a">>,         Name |-> <<"b", "a">>] }

ItemLists == UNION {[1 .. n -> ItemPool] : n \in 0 .. MaxItems}

\* Inputs present when the filter is first looked at.
StartQueries ==
    { << >>,
      <<"t", "a", "b", "l", "e", "c", "o", "u", "n", "t">>,
      <<"T", "A", "B", "L", "E", " ", "C", "O", "U", "N", "T", " ",
        "P", "E", "R", " ", "S", "C", "H", "E", "M", "A">> }

\* Keys typed into the search input in the model.
QueryChars == {"a", "B", " ", "\t", "."}

\* A key is typed into the search input: the prompt filters again.
TypeKey ==
    /\ Len(query) < MaxQuery
    /\ \E c \in QueryChars : query' = Append(query, c)
    /\ visible' = Filter(searchBy, searchItems, query')
    /\ UNCHANGED <<searchBy, searchItems>>
    /\ UNCHANGED <<navVars, procVars>>

\* The last key is deleted: the prompt filters again.
Backspace ==
    /\ Len(query) > 0
    /\ query' = SubSeq(query, 1, Len(query) - 1)
    /\ visible' = Filter(searchBy, searchItems, query')
    /\ UNCHANGED <<searchBy, searchItems>>
    /\ UNCHANGED <<navVars, procVars>>

\* A prompt over any list of the model with any searcher, being filtered.
SearchInit ==
    /\ root = "startState"
    /\ pc = "select"
    /\ fn = root
    /\ err = NilErr
    /\ selBy = "none"
    /\ selLabel = ""
    /\ selItems = << >>
    /\ selRes = NoSel
    /\ fetchRes = NoFetch
    /\ cycle = << >>
    /\ returned = NilErr
    /\ termSize = [height |-> 0, err |-> NilErr]
    /\ selSize = 0
    /\ selSearch = TRUE
    /\ written = << >>
    /\ searchBy \in Searchers
    /\ searchItems \in ItemLists
    /\ query \in StartQueries
    /\ visible = Filter(searchBy, searchItems, query)
    /\ ctxDone = FALSE
    /\ sigs = << >>
    /\ relay = "waiting"
    /\ cancels = 0
    /\ lastSig = "none"
    /\ prog = "cmd/pgkons"
    /\ debug = FALSE
    /\ startup = NoStartup
    /\ exitCode = "none"
    /\ logged = << >>
    /\ NoConfigYet

SearchNext ==
    \/ TypeKey
    \/ Backspace

SearchSpec == SearchInit /\ [][SearchNext]_vars

(***************************************************************************)
(* The connection profiles (part_002): config.json, written by             *)
(* encoding/json and read back by it.  The file is a sequence of           *)
(* characters; a profile is a CFG, its fields strings.                     *)
(***************************************************************************)
MaxProfiles == 2

DQ  == "\""
BS  == "\\"
NL  == "\n"
TAB == "\t"

\* type CFG struct: the fields in the order of the declaration, each with
\* the key of its `json` tag
CFGFields ==
    << [field |-> "Name",     tag |-> <<"c", "o", "n", "f", "i", "g", "_", "n", "a", "m", "e">>],
       [field |-> "DBName",   tag |-> <<"d", "b", "N", "a", "m", "e">>],
       [field |-> "Password", tag |-> <<"p", "a", "s", "s", "w", "o", "r", "d">>],
       [field |-> "Port",     tag |-> <<"p", "o", "r", "t">>],
       [field |-> "SSLMode",  tag |-> <<"s", "s", "l", "M", "o", "d", "e">>],
       [field |-> "Username", tag |-> <<"u", "s", "e", "r", "n", "a", "m", "e">>] >>

\* var newCFG CFG
ZeroCFG ==
    [Name |-> << >>, DBName |-> << >>, Password |-> << >>, Port |-> << >>,
     SSLMode |-> << >>, Username |-> << >>]

\* sslModes
sslModes ==
    { <<"d", "i", "s", "a", "b", "l", "e">>,
      <<"r", "e", "q", "u", "i", "r", "e">>,
      <<"v", "e", "r", "i", "f", "y", "-", "c", "a">>,
      <<"v", "e", "r", "i", "f", "y", "-", "f", "u", "l", "l">> }

\* What the prompts of newDBCFG can hand to saveNewConfig: no field is
\* empty (validateEmptyInput), the SSL mode is one of sslModes, and any
\* character that can be typed may stand in the others.
Profiles ==
    { [Name     |-> <<"l", "o", "c", "a", "l">>,
       DBName   |-> <<"p", "g">>,
       Password |-> <<"p", "w">>,
       Port     |-> <<"5", "4", "3", "3">>,
       SSLMode  |-> <<"d", "i", "s", "a", "b", "l", "e">>,
       Username |-> <<"p", "g">>],
      [Name     |-> <<"R", "&", "D">>,
       DBName   |-> <<"<", "d", "b", ">">>,
       Password |-> <<"p", BS>>,
       Port     |-> <<"5", "4", "3", "2">>,
       SSLMode  |-> <<"r", "e", "q", "u", "i", "r", "e">>,
       Username |-> <<"a", DQ, "b">>],
      [Name     |-> <<"[", "{">>,
       DBName   |-> <<"}", "]">>,
       Password |-> <<BS, DQ>>,
       Port     |-> <<BS, "u", "0", "0", "3", "c">>,
       SSLMode  |-> <<"v", "e", "r", "i", "f", "y", "-", "c", "a">>,
       Username |-> <<DQ, ",", DQ, "p", "o", "r", "t", DQ, ":", DQ, "1">>],
      [Name     |-> <<"L", "o", "c", "a", "l">>,
       DBName   |-> <<"d", " ", "b">>,
       Password |-> <<DQ>>,
       Port     |-> <<"1">>,
       SSLMode  |-> <<"v", "e", "r", "i", "f", "y", "-", "f", "u", "l", "l">>,
       Username |-> <<BS, "n">>] }

RECURSIVE Concat(_)
Concat(parts) == IF parts = << >> THEN << >> ELSE Head(parts) \o Concat(Tail(parts))

RECURSIVE Join(_, _)
Join(parts, sep) ==
    IF parts = << >> THEN << >>
    ELSE IF Len(parts) = 1 THEN parts[1]
    ELSE parts[1] \o sep \o Join(Tail(parts), sep)

\* encoding/json writes a string between quotes, with \" and \\ for the
\* quote and the backslash, \n and \t for the newline and the tab, and
\* \u003c \u003e \u0026 for < > & (its HTML escaping is on by default).
escapeNothing(c) == <<c>>

escape(c) ==
    IF c = DQ THEN <<BS, DQ>>
    ELSE IF c = BS THEN <<BS, BS>>
    ELSE IF c = NL THEN <<BS, "n">>
    ELSE IF c = TAB THEN <<BS, "t">>
    ELSE IF c = "<" THEN <<BS, "u", "0", "0", "3", "c">>
    ELSE IF c = ">" THEN <<BS, "u", "0", "0", "3", "e">>
    ELSE IF c = "&" THEN <<BS, "u", "0", "0", "2", "6">>
    ELSE <<c>>

encodeString(str) ==
    <<DQ>> \o Concat([k \in 1 .. Len(str) |-> escape(str[k])]) \o <<DQ>>

\* One member of an object as MarshalIndent(v, "", "\t") lays it out at
\* depth two.
encodeMember(cfg, f) ==
    <<TAB, TAB>> \o encodeString(f.tag) \o <<":", " ">> \o encodeString(cfg[f.field])

encodeCFG(cfg) ==
    <<TAB, "{", NL>>
       \o Join([k \in 1 .. Len(CFGFields) |-> encodeMember(cfg, CFGFields[k])], <<",", NL>>)
       \o <<NL, TAB, "}">>

\* json.MarshalIndent(cfgs, "", "\t") of a slice that is not nil
MarshalIndent(cfgs) ==
    IF cfgs = << >>
       THEN <<"[", "]">>
       ELSE <<"[", NL>>
               \o Join([k \in 1 .. Len(cfgs) |-> encodeCFG(cfgs[k])], <<",", NL>>)
               \o <<NL, "]">>

\* json.NewEncoder(f).Encode([]CFG{}): the value and a newline
EncodeEmpty == <<"[", "]", NL>>

\* The decoder of encoding/json, for a value of type []CFG.  A parse
\* answers [ok, val, next]: the value and the position after it.
WhiteSpace == {" ", NL, TAB, "\r"}

Failed == [ok |-> FALSE, val |-> << >>, next |-> 0]

Parsed(v, n) == [ok |-> TRUE, val |-> v, next |-> n]

RECURSIVE skipSpace(_, _)
skipSpace(s, i) ==
    IF i <= Len(s) /\ s[i] \in WhiteSpace THEN skipSpace(s, i + 1) ELSE i

\* The escapes of one character, for the characters of this alphabet.
SimpleEscapes == {DQ, BS, "/", "n", "t", "r"}

unescape(c) ==
    IF c = "n" THEN NL
    ELSE IF c = "t" THEN TAB
    ELSE IF c = "r" THEN "\r"
    ELSE c

\* \uXXXX, for the characters of this alphabet; the digits are read in
\* either case.
CodePoints ==
    << [hex |-> <<"0", "0", "3", "c">>, char |-> "<"],
       [hex |-> <<"0", "0", "3", "e">>, char |-> ">"],
       [hex |-> <<"0", "0", "2", "6">>, char |-> "&"],
       [hex |-> <<"0", "0", "2", "2">>, char |-> DQ],
       [hex |-> <<"0", "0", "5", "c">>, char |-> BS] >>

KnownCodePoint(h) == \E k \in 1 .. Len(CodePoints) : CodePoints[k].hex = ToLower(h)

unicode(h) == CodePoints[CHOOSE k \in 1 .. Len(CodePoints) : CodePoints[k].hex = ToLower(h)].char

\* The characters of a string from position i, past its opening quote, up
\* to the first quote that no backslash escapes.
RECURSIVE readString(_, _, _)
readString(s, i, acc) ==
    IF i > Len(s) THEN Failed
    ELSE IF s[i] = DQ THEN Parsed(acc, i + 1)
    ELSE IF s[i] = BS
            THEN IF i + 1 > Len(s) THEN Failed
                 ELSE IF s[i + 1] = "u"
                         THEN IF i + 5 <= Len(s) /\ KnownCodePoint(SubSeq(s, i + 2, i + 5))
                                 THEN readString(s, i + 6,
                                                 Append(acc, unicode(SubSeq(s, i + 2, i + 5))))
                                 ELSE Failed
                 ELSE IF s[i + 1] \in SimpleEscapes
                         THEN readString(s, i + 2, Append(acc, unescape(s[i + 1])))
                 ELSE Failed
    ELSE IF s[i] \in {NL, TAB, "\r"} THEN Failed
    ELSE readString(s, i + 1, Append(acc, s[i]))

decodeString(s, i) ==
    IF i <= Len(s) /\ s[i] = DQ THEN readString(s, i + 1, << >>) ELSE Failed

\* The field a key names: the one whose tag is the key, else the first
\* whose tag is the key but for the case of its letters, else none.
fieldOf(key) ==
    LET exact == {k \in 1 .. Len(CFGFields) : CFGFields[k].tag = key}
        fold  == {k \in 1 .. Len(CFGFields) : ToLower(CFGFields[k].tag) = ToLower(key)}
    IN  IF exact # {} THEN CFGFields[CHOOSE k \in exact : TRUE].field
        ELSE IF fold # {} THEN CFGFields[CHOOSE k \in fold : \A j \in fold : k <= j].field
        ELSE "none"

RECURSIVE readMembers(_, _, _)
readMembers(s, i, cfg) ==
    LET key == decodeString(s, skipSpace(s, i))
    IN  IF ~key.ok THEN Failed
        ELSE LET colon == skipSpace(s, key.next)
             IN  IF colon > Len(s) \/ s[colon] # ":" THEN Failed
                 ELSE LET v == decodeString(s, skipSpace(s, colon + 1))
                      IN  IF ~v.ok THEN Failed
                          ELSE LET f    == fieldOf(key.val)
                                   set  == IF f = "none" THEN cfg ELSE [cfg EXCEPT ![f] = v.val]
                                   stop == skipSpace(s, v.next)
                               IN  IF stop > Len(s) THEN Failed
                                   ELSE IF s[stop] = "}" THEN Parsed(set, stop + 1)
                                   ELSE IF s[stop] = "," THEN readMembers(s, stop + 1, set)
                                   ELSE Failed

decodeCFG(s, i) ==
    IF i > Len(s) \/ s[i] # "{" THEN Failed
    ELSE LET j == skipSpace(s, i + 1)
         IN  IF j <= Len(s) /\ s[j] = "}"
                THEN Parsed(ZeroCFG, j + 1)
                ELSE readMembers(s, j, ZeroCFG)

RECURSIVE readElements(_, _, _)
readElements(s, i, cfgs) ==
    LET elem == decodeCFG(s, skipSpace(s, i))
    IN  IF ~elem.ok THEN Failed
        ELSE LET stop == skipSpace(s, elem.next)
             IN  IF stop > Len(s) THEN Failed
                 ELSE IF s[stop] = "]" THEN Parsed(Append(cfgs, elem.val), stop + 1)
                 ELSE IF s[stop] = "," THEN readElements(s, stop + 1, Append(cfgs, elem.val))
                 ELSE Failed

\* json.NewDecoder(file).Decode(&cfgs) over what the file holds from the
\* offset of the handle on: the next value of the stream, an error at its
\* end.
Decode(s) ==
    LET i == skipSpace(s, 1)
    IN  IF i > Len(s) THEN Failed
        ELSE IF s[i] # "[" THEN Failed
        ELSE LET j == skipSpace(s, i + 1)
             IN  IF j <= Len(s) /\ s[j] = "]"
                    THEN Parsed(<< >>, j + 1)
                    ELSE readElements(s, j, << >>)

\* What a handle at offset off still has to read.
FromOffset(bytes, off) == SubSeq(bytes, off + 1, Len(bytes))

\* What the operating system may refuse: os.Mkdir, os.Open, the os.Create
\* of a file that is not there, the os.Create over one that is, a write.
CfgFaults == {"none", "mkdir", "open", "create", "truncate", "write"}

\* A fault can only strike a call the function makes.
Strikes(fault) ==
    /\ fault = "mkdir" => ~konsdir
    /\ fault = "open" => configJSON.exists
    /\ fault = "create" => ~configJSON.exists

CfgReturns(op, fault, arg, cfgs, e) ==
    cfgRet' = [op |-> op, fault |-> fault, arg |-> arg, cfgs |-> cfgs, err |-> e]

\* cfgs after Decode: the list read, nil when Decode failed
Decoded(d) == IF d.ok THEN d.val ELSE << >>

\* func configFile() ([]CFG, error)
configFile ==
    /\ pc = "start"
    /\ \E fault \in CfgFaults \ {"truncate"} :
          /\ Strikes(fault)
          /\ fault = "write" => ~configJSON.exists
          /\ IF fault = "mkdir"
                THEN /\ CfgReturns("configFile", fault, << >>, << >>, fault)
                     /\ UNCHANGED <<konsdir, configJSON, saved>>
                ELSE /\ konsdir' = TRUE
                     /\ IF configJSON.exists
                           THEN /\ UNCHANGED <<configJSON, saved>>
                                /\ IF fault = "open"
                                      THEN CfgReturns("configFile", fault, << >>, << >>, fault)
                                      ELSE CfgReturns("configFile", fault, << >>,
                                                      Decoded(Decode(FromOffset(configJSON.bytes, 0))),
                                                      NilErr)
                           ELSE IF fault = "create"
                                   THEN /\ CfgReturns("configFile", fault, << >>, << >>, fault)
                                        /\ UNCHANGED <<configJSON, saved>>
                           ELSE IF fault = "write"
                                   THEN /\ configJSON' = [exists |-> TRUE, bytes |-> << >>]
                                        /\ saved' = [ok |-> FALSE, list |-> << >>]
                                        /\ CfgReturns("configFile", fault, << >>, << >>, fault)
                           ELSE /\ configJSON' = [exists |-> TRUE, bytes |-> EncodeEmpty]
                                /\ saved' = [ok |-> TRUE, list |-> << >>]
                                /\ CfgReturns("configFile", fault, << >>,
                                              Decoded(Decode(FromOffset(EncodeEmpty, Len(EncodeEmpty)))),
                                              NilErr)
    /\ UNCHANGED <<navVars, searchVars, sigVars, mainVars>>

\* func saveNewConfig(newCFG CFG) error
saveNewConfig(newCFG) ==
    /\ pc = "start"
    /\ Len(saved.list) < MaxProfiles
    /\ \E fault \in CfgFaults :
          /\ Strikes(fault)
          /\ IF fault = "mkdir"
                THEN /\ CfgReturns("saveNewConfig", fault, <<newCFG>>, << >>, fault)
                     /\ UNCHANGED <<konsdir, configJSON, saved>>
                ELSE /\ konsdir' = TRUE
                     /\ IF fault \in {"open", "create"}
                           THEN /\ CfgReturns("saveNewConfig", fault, <<newCFG>>, << >>, fault)
                                /\ UNCHANGED <<configJSON, saved>>
                           ELSE LET opened == IF configJSON.exists THEN configJSON.bytes ELSE << >>
                                    cfgs   == Decoded(Decode(FromOffset(opened, 0)))
                                IN  IF fault = "truncate"
                                       THEN /\ configJSON' = [exists |-> TRUE, bytes |-> opened]
                                            /\ UNCHANGED saved
                                            /\ CfgReturns("saveNewConfig", fault, <<newCFG>>, << >>, fault)
                                    ELSE IF fault = "write"
                                       THEN /\ configJSON' = [exists |-> TRUE, bytes |-> << >>]
                                            /\ saved' = [ok |-> FALSE, list |-> << >>]
                                            /\ CfgReturns("saveNewConfig", fault, <<newCFG>>, << >>, fault)
                                    ELSE /\ configJSON' = [exists |-> TRUE,
                                                           bytes |-> MarshalIndent(Append(cfgs, newCFG))]
                                         /\ saved' = [ok |-> TRUE, list |-> Append(saved.list, newCFG)]
                                         /\ CfgReturns("saveNewConfig", fault, <<newCFG>>, << >>, NilErr)
    /\ UNCHANGED <<navVars, searchVars, sigVars, mainVars>>

\* newDBCFG over the runs of the program: it reads the profiles, and saves
\* the one the prompts built when the user confirms.
CfgInit ==
    /\ root = "startState"
    /\ pc = "start"
    /\ fn = NilFn
    /\ err = NilErr
    /\ selBy = "none"
    /\ selLabel = ""
    /\ selItems = << >>
    /\ selRes = NoSel
    /\ fetchRes = NoFetch
    /\ cycle = << >>
    /\ returned = NilErr
    /\ termSize = [height |-> 0, err |-> NilErr]
    /\ selSize = 0
    /\ selSearch = FALSE
    /\ written = << >>
    /\ searchBy = "none"
    /\ searchItems = << >>
    /\ query = << >>
    /\ visible = << >>
    /\ ctxDone = FALSE
    /\ sigs = << >>
    /\ relay = "waiting"
    /\ cancels = 0
    /\ lastSig = "none"
    /\ prog = "cmd/pgkons"
    /\ debug = FALSE
    /\ startup = NoStartup
    /\ exitCode = "none"
    /\ logged = << >>
    /\ NoConfigYet

CfgNext ==
    \/ configFile
    \/ \E newCFG \in Profiles : saveNewConfig(newCFG)

CfgSpec == CfgInit /\ [][CfgNext]_vars


(***************************************************************************)
(* Helpers for the properties.                                             *)
(***************************************************************************)
\* The events of the cycle with operation op, in order.
Ops(op) == SelectSeq(cycle, LAMBDA ev : ev.op = op)

\* The StateFns invoked since the root was last invoked, the root first.
Calls == [k \in 1 .. Len(Ops("call")) |-> Ops("call")[k].who]

\* The last event of the cycle (an empty event before the first one).
LastEvent == IF cycle = << >> THEN Event("none", "", 0, NilErr) ELSE cycle[Len(cycle)]

(***************************************************************************)
(* C1.  Run stops at the first transition that returns a non-nil error:    *)
(* whatever next state came with the error, the step after the return is   *)
(* Run's own return with that error, and no further transition is invoked. *)
(***************************************************************************)
C1_StopsAtFirstError ==
    [][(pc = "ret" /\ err # NilErr) => (pc' = "done" /\ returned' = err)]_vars

(***************************************************************************)
(* C2.  After a transition returned without error, Run does not return:    *)
(* on (nil, nil) the transition invoked next is the root's, on (next, nil) *)
(* it is exactly next.                                                     *)
(***************************************************************************)
C2_BounceOrFollow ==
    [][(pc = "ret" /\ err = NilErr) =>
          /\ pc' = "call"
          /\ (fn = NilFn) => (fn' = root)
          /\ (fn # NilFn) => (fn' = fn)]_vars

\* Run followed a non-nil next (Explore was invoked) and, after the action
\* of that cycle succeeded, stands at the root again.
C2_Witness ==
    /\ root = "startState"
    /\ pc = "call"
    /\ fn = root
    /\ err = NilErr
    /\ \E k \in 1 .. Len(Calls) : Calls[k] = "exploreState"
    /\ LastEvent.op = "erase"
    /\ LastEvent.who \in ActionFns

(***************************************************************************)
(* C3.  Run returns only with the non-nil error of the last transition:    *)
(* the value returned is never nil.                                        *)
(***************************************************************************)
C3_ReturnsOnlyError ==
    pc = "done" => (returned # NilErr /\ returned = err /\ fn = NilFn)

\* Run over the shipped tree has returned after the user interrupted a prompt.
C3_Witness ==
    /\ root = "startState"
    /\ pc = "done"
    /\ returned = "ErrInterrupt"

(***************************************************************************)
(* C4.  Scenario A: on the path Explore, Schemas, All the Schemas provider *)
(* is the one provider invoked, and invoked once; when it and the result   *)
(* prompt succeed, Run goes to the root StateFn, and the prompt opened     *)
(* next is "Options" over Explore and PlayGround.                          *)
(***************************************************************************)
PathA == <<"startState", "exploreState", "schemaState", "Schemas">>

Names(states) == [k \in 1 .. Len(states) |-> states[k].Name]

C4_ScenarioA ==
    [][(root = "startState" /\ Calls = PathA) =>
          /\ Len(Ops("fetch")) = 1
          /\ Ops("fetch")[1].who = "Schemas"
          /\ (pc = "ret" /\ err = NilErr) => (pc' = "call" /\ fn' = "startState")
          /\ (pc = "call") =>
                /\ fn = "startState"
                /\ pc' = "select"
                /\ selLabel' = "Options"
                /\ Names(selItems') = <<"Explore", "PlayGround">>]_vars

\* Explore, Schemas, All were chosen, the fetch and the result prompt
\* succeeded, and Run is about to invoke the root StateFn.
C4_Witness ==
    /\ root = "startState"
    /\ Calls = PathA
    /\ pc = "call"
    /\ fn = "startState"
    /\ fetchRes.err = NilErr
    /\ selRes.err = NilErr
    /\ LastEvent = Event("erase", "Schemas", 0, NilErr)

(***************************************************************************)
(* C5.  An action StateFn always returns a nil next state: (nil, nil) when *)
(* its prompt succeeds, whatever the index, and (nil, err) with the        *)
(* prompt's error otherwise.                                               *)
(***************************************************************************)
C5_ActionReturnsNil ==
    [][(fn \in ActionFns /\ pc \in {"fetch", "select"} /\ pc' = "ret") =>
          /\ fn' = NilFn
          /\ (pc = "select") => (err' = selRes'.err)]_vars

\* An action's prompt returned index 1 without error and the StateFn
\* returned (nil, nil).
C5_Witness ==
    /\ pc = "ret"
    /\ LastEvent.op = "erase"
    /\ LastEvent.who \in ActionFns
    /\ selRes = [i |-> 1, err |-> NilErr]
    /\ fn = NilFn
    /\ err = NilErr

(***************************************************************************)
(* C6.  In an action the fetch comes before the prompt: a prompt of an     *)
(* action directly follows a successful fetch of that action.  A failed    *)
(* fetch is the last event of the run: the StateFn returns (nil, that      *)
(* error) and Run returns it.                                              *)
(***************************************************************************)
FetchBeforeSelect ==
    \A k \in 1 .. Len(cycle) :
        (cycle[k].op = "select" /\ cycle[k].who \in ActionFns) =>
            /\ k > 1
            /\ cycle[k - 1] = Event("fetched", cycle[k].who, cycle[k - 1].n, NilErr)

FailedFetchIsFatal ==
    \A k \in 1 .. Len(cycle) :
        (cycle[k].op = "fetched" /\ cycle[k].e # NilErr) =>
            /\ k = Len(cycle)
            /\ pc \in {"ret", "done"}
            /\ fn = NilFn
            /\ err = cycle[k].e
            /\ (pc = "done") => (returned = cycle[k].e)

C6_FetchFirstFailFast ==
    [][/\ FetchBeforeSelect'
       /\ FailedFetchIsFatal'
       /\ (pc = "ret" /\ LastEvent.op = "fetched" /\ LastEvent.e # NilErr) =>
              (pc' = "done" /\ returned' = LastEvent.e)]_vars

\* Run has returned the error of a fetch, and no prompt of an action was
\* opened in that cycle.
C6_Witness ==
    /\ pc = "done"
    /\ LastEvent.op = "fetched"
    /\ returned = "ErrDB"
    /\ \A k \in 1 .. Len(Ops("select")) : Ops("select")[k].who \in MenuFns

(***************************************************************************)
(* C7.  A menu with children returns (children[i].Fn, nil) when its prompt *)
(* returns index i, 0 <= i < len(children), and (nil, err) when the prompt *)
(* returns err.                                                            *)
(***************************************************************************)
C7_MenuResult ==
    [][(fn \in MenuFns /\ pc = "select" /\ pc' = "ret") =>
          LET out      == selRes'
              children == MenuStates(fn)
          IN  /\ Len(children) > 0
              /\ (out.err = NilErr) =>
                    /\ out.i \in 0 .. (Len(children) - 1)
                    /\ fn' = children[out.i + 1].Fn
                    /\ err' = NilErr
              /\ (out.err # NilErr) => (fn' = NilFn /\ err' = out.err)]_vars

\* The Stats menu returned the StateFn of its last child, index 7.
C7_Witness ==
    /\ pc = "ret"
    /\ LastEvent = Event("erase", "statsState", 0, NilErr)
    /\ selRes = [i |-> 7, err |-> NilErr]
    /\ fn = "Version"
    /\ err = NilErr

(***************************************************************************)
(* C8.  A menu without children opens no prompt: its StateFn returns       *)
(* (nil, nil), and Run goes to the root.  No prompt of selectState has an  *)
(* empty list.                                                             *)
(***************************************************************************)
C8_EmptyMenuBounces ==
    [][/\ (pc = "call" /\ fn \in MenuFns /\ MenuStates(fn) = << >>) =>
              /\ pc' = "ret"
              /\ fn' = NilFn
              /\ err' = NilErr
              /\ UNCHANGED <<selBy, selLabel, selItems>>
       /\ (pc = "ret" /\ LastEvent = Event("call", "emptyMenu", 0, NilErr)) =>
              (pc' = "call" /\ fn' = root)
       /\ (pc' = "select" /\ selBy' = "selectState") => (Len(selItems') > 0)]_vars

\* The menu without children was invoked and Run stands at the root again.
C8_Witness ==
    /\ pc = "call"
    /\ fn = root
    /\ LastEvent = Event("call", "emptyMenu", 0, NilErr)

(***************************************************************************)
(* C9.  Every prompt opened by an action has a non-empty list: one item    *)
(* when the fetch answered zero rows.                                      *)
(***************************************************************************)
C9_ActionListNeverEmpty ==
    (pc = "select" /\ selBy = "selecter") =>
        /\ Len(selItems) >= 1
        /\ (fetchRes.rows = 0) => (Len(selItems) = 1)

(***************************************************************************)
(* C10.  Scenario B: when the materialized-views query answers zero rows,  *)
(* the prompt is opened over the one item view{ViewSchema: "back"}, and    *)
(* choosing it makes the StateFn return (nil, nil).                        *)
(***************************************************************************)
C10_ScenarioB ==
    [][/\ (pc' = "select" /\ fn' = "MaterializedViews" /\ fetchRes'.rows = 0) =>
              /\ Len(selItems') = 1
              /\ selItems'[1].ViewSchema = "back"
       /\ (/\ pc = "select" /\ fn = "MaterializedViews" /\ fetchRes.rows = 0
           /\ pc' = "ret" /\ selRes'.err = NilErr) =>
              /\ selRes'.i = 0
              /\ fn' = NilFn
              /\ err' = NilErr]_vars

\* The sentinel of Materialized was chosen and the StateFn returned (nil, nil).
C10_Witness ==
    /\ pc = "ret"
    /\ LastEvent = Event("erase", "MaterializedViews", 0, NilErr)
    /\ fetchRes = [rows |-> 0, err |-> NilErr]
    /\ selItems = <<BackView>>
    /\ selRes = [i |-> 0, err |-> NilErr]
    /\ fn = NilFn
    /\ err = NilErr

(***************************************************************************)
(* C11.  Every prompt that returned, of selectState or of selecter and     *)
(* whatever it returned, is followed by one overwritePrevLine before       *)
(* control is back in Run.                                                 *)
(***************************************************************************)
C11_EraseAfterEverySelect ==
    /\ \A k \in 1 .. Len(cycle) :
          (cycle[k].op = "selected") =>
              (k < Len(cycle) /\ cycle[k + 1] = Event("erase", cycle[k].who, 0, NilErr))
    /\ Len(Ops("erase")) = Len(Ops("selected"))

(***************************************************************************)
(* C12.  The bytes of one overwritePrevLine are, to the terminal, three    *)
(* control actions and nothing printed: a control sequence ESC [ moving    *)
(* the cursor up one line, the control sequence ESC [ 2 K clearing the     *)
(* line, and a carriage return.                                            *)
(***************************************************************************)
Digits == {"0", "1", "2", "3", "4", "5", "6", "7", "8", "9"}

\* The end of the parameter digits of a control sequence starting at k.
RECURSIVE ParamEnd(_, _)
ParamEnd(bytes, k) ==
    IF k <= Len(bytes) /\ bytes[k] \in Digits THEN ParamEnd(bytes, k + 1) ELSE k

\* What a terminal makes of bytes from position k on: ESC [ digits final
\* is a control sequence, CR a carriage return, any other byte is printed.
RECURSIVE TerminalActions(_, _)
TerminalActions(bytes, k) ==
    IF k > Len(bytes) THEN << >>
    ELSE IF bytes[k] = "ESC" /\ k + 1 <= Len(bytes) /\ bytes[k + 1] = "["
                /\ ParamEnd(bytes, k + 2) <= Len(bytes)
        THEN LET e == ParamEnd(bytes, k + 2)
             IN  <<[kind |-> "CSI", param |-> SubSeq(bytes, k + 2, e - 1), final |-> bytes[e]]>>
                     \o TerminalActions(bytes, e + 1)
    ELSE IF bytes[k] = "CR"
        THEN <<[kind |-> "CR", param |-> << >>, final |-> ""]>> \o TerminalActions(bytes, k + 1)
    ELSE <<[kind |-> "print", param |-> << >>, final |-> bytes[k]]>>
             \o TerminalActions(bytes, k + 1)

C12_EraseIsThreeControls ==
    (written # << >>) =>
        LET acts == TerminalActions(written, 1)
        IN  /\ Len(acts) = 3
            /\ acts[1].kind = "CSI" /\ acts[1].final \in {"A", "F"}
            /\ acts[1].param \in {<< >>, <<"1">>}
            /\ acts[2] = [kind |-> "CSI", param |-> <<"2">>, final |-> "K"]
            /\ acts[3].kind = "CR"
            /\ \A k \in 1 .. Len(acts) : acts[k].kind # "print"

(***************************************************************************)
(* C13.  With a readable window and templates given, the Size of a prompt  *)
(* is max(1, rows - 4 - lines of Details): never below 1.                  *)
(***************************************************************************)
\* The templates of the running prompt.
TemplatesOf(f) == IF f \in MenuFns THEN MenuTemplates ELSE ActionTemplates(f)

Max(a, b) == IF a >= b THEN a ELSE b

C13_SizeIsClamped ==
    (pc = "select" /\ termSize.err = NilErr /\ ~TemplatesOf(fn).isNil) =>
        /\ selSize = Max(1, termSize.height - 4 - Count(TemplatesOf(fn).Details, "\n"))
        /\ selSize >= 1

C14_WitnessNoWindow ==
    pc = "select" /\ selSize = 1 /\ termSize.err # NilErr

C14_WitnessNilTemplates ==
    pc = "select" /\ selSize = 1 /\ fn = "Version" /\ termSize.height = 20

(***************************************************************************)
(* C15.  Scenario D: 2 rows and no Details lines give Size 1; 20 rows and  *)
(* 4 Details lines give Size 12.                                           *)
(***************************************************************************)
C15_ScenarioD ==
    (pc = "select" /\ termSize.err = NilErr /\ ~TemplatesOf(fn).isNil) =>
        /\ (termSize.height = 2 /\ Count(TemplatesOf(fn).Details, "\n") = 0)
              => (selSize = 1)
        /\ (termSize.height = 20 /\ Count(TemplatesOf(fn).Details, "\n") = 4)
              => (selSize = 12)

\* The Schemas prompt, whose Details have 4 lines, opened in 20 rows.
C15_Witness ==
    /\ pc = "select"
    /\ fn = "Schemas"
    /\ termSize = [height |-> 20, err |-> NilErr]
    /\ selSize = 12

(***************************************************************************)
(* C20.  A prompt of selecter starts in search mode exactly when a         *)
(* searcher was given: all actions but Tables Grouped By Rows and          *)
(* Postgres Version.                                                       *)
(***************************************************************************)
C20_SearchModeIffSearcher ==
    (pc = "select" /\ selBy = "selecter") =>
        (selSearch <=> fn \notin {"TablesGroupByRows", "Version"})

\* The Postgres Version prompt, opened as a plain list.
C20_Witness ==
    /\ pc = "select"
    /\ selBy = "selecter"
    /\ fn = "Version"
    /\ ~selSearch

(***************************************************************************)
(* Helpers for the properties of the searchers.                            *)
(***************************************************************************)
Range(seq) == {seq[k] : k \in 1 .. Len(seq)}

\* The indexes of the filtered list, Go's.
Indexes == 0 .. (Len(searchItems) - 1)

\* The text of an item as its searcher reads it, before any normalizing.
RawText(by, item) ==
    CASE by = "Name"   -> item.Name
      [] by = "Schema" -> item.Schema
      [] OTHER         -> item.Schema \o <<".">> \o item.Name

Whitespace == {" ", "\t", "\n"}

\* Lower-case, all whitespace removed.
Canonical(str) == SelectSeq(ToLower(str), LAMBDA c : c \notin Whitespace)

\* sub occurs in str.
Occurs(sub, str) ==
    \E a \in 0 .. Len(str), b \in 0 .. Len(str) :
        a + b <= Len(str) /\ SubSeq(str, a + 1, a + b) = sub

\* Equal but for the case of the letters.
SameIgnoringCase(x, y) ==
    /\ Len(x) = Len(y)
    /\ \A k \in 1 .. Len(x) : ToLowerChar(x[k]) = ToLowerChar(y[k])

WithoutSpaces(str) == SelectSeq(str, LAMBDA c : c # " ")

(***************************************************************************)
(* C16.  With the empty input every searcher accepts every item: the       *)
(* prompt shows the whole list.                                            *)
(***************************************************************************)
C16_EmptyQueryMatchesAll ==
    (query = << >>) => (visible = [k \in 1 .. Len(searchItems) |-> k - 1])

\* The input is empty (again) and both items of the list are shown.
C16_Witness ==
    /\ query = << >>
    /\ Len(searchItems) = 2
    /\ visible = <<0, 1>>

(***************************************************************************)
(* C17.  A searcher accepts an item exactly when the input, lower-cased    *)
(* and with all whitespace (spaces, tabs, newlines) removed, occurs in the *)
(* item text, lower-cased and with all whitespace removed.                 *)
(***************************************************************************)
C17_CanonicalContainment ==
    \A i \in Indexes :
        (i \in Range(visible)) <=>
            Occurs(Canonical(query), Canonical(RawText(searchBy, searchItems[i + 1])))

(***************************************************************************)
(* C18.  With the name searcher, an input that is, but for letter case and *)
(* its own spaces, a part of the name without its spaces is accepted:      *)
(* "Table Count Per Schema" is shown for "tablecount" and for              *)
(* "TABLE COUNT PER SCHEMA".                                               *)
(***************************************************************************)
C18_SpacesAndCaseIgnored ==
    (searchBy = "Name") =>
        \A i \in Indexes :
            LET name == WithoutSpaces(searchItems[i + 1].Name)
                q    == WithoutSpaces(query)
            IN  (\E a \in 0 .. Len(name) :
                    /\ a + Len(q) <= Len(name)
                    /\ SameIgnoringCase(SubSeq(name, a + 1, a + Len(q)), q))
                    => (i \in Range(visible))

\* "Table Count Per Schema" is shown for the input "TABLE COUNT PER SCHEMA".
C18_Witness ==
    /\ searchBy = "Name"
    /\ Len(searchItems) = 2
    /\ searchItems[2].Name = TableCountPerSchema
    /\ query = <<"T", "A", "B", "L", "E", " ", "C", "O", "U", "N", "T", " ",
                 "P", "E", "R", " ", "S", "C", "H", "E", "M", "A">>
    /\ 1 \in Range(visible)

\* "Table Count Per Schema" is shown for the input "tablecount".
C18_WitnessLower ==
    /\ searchBy = "Name"
    /\ Len(searchItems) >= 1
    /\ searchItems[1].Name = TableCountPerSchema
    /\ query = <<"t", "a", "b", "l", "e", "c", "o", "u", "n", "t">>
    /\ 0 \in Range(visible)

(***************************************************************************)
(* C19.  Filtering leaves the list alone: whatever is typed, the items     *)
(* stay as they were, and the rows shown are the indexes, in list order,   *)
(* of the items the searcher accepts, each judged by itself.               *)
(***************************************************************************)
\* The searcher applied to one item on its own.
Accepts(by, input, item) == searcher(by, <<item>>, input, 0)

C19_FilterKeepsListAndOrder ==
    [][/\ searchItems' = searchItems
       /\ \A k \in 1 .. (Len(visible') - 1) : visible'[k] < visible'[k + 1]
       /\ \A i \in Indexes :
             (i \in Range(visible')) <=> Accepts(searchBy, query', searchItems[i + 1])]_vars

\* After some typing only the second of two different items is shown.
C19_Witness ==
    /\ Len(searchItems) = 2
    /\ searchItems[1] # searchItems[2]
    /\ query # << >>
    /\ query \notin StartQueries
    /\ visible = <<1>>

(***************************************************************************)
(* C21.  Scenario C: once an interrupt signal has been delivered while a   *)
(* Select is blocked on input, the program's own steps take Run out of     *)
(* that Select, no key being pressed: Run does not hang in it.  (This is   *)
(* the least the scenario asks; it goes on to ask that Run then returns a  *)
(* cancellation error.)                                                    *)
(***************************************************************************)
C21_SignalEndsBlockedSelect ==
    []((pc = "select" /\ lastSig = "SIGINT") => <>(pc # "select"))

\* A Select is blocked and the relay has cancelled the context.
C21_Witness ==
    /\ pc = "select"
    /\ lastSig = "SIGINT"
    /\ ctxDone
    /\ cancels = 1

(***************************************************************************)
(* C22.  The relay cancels the context exactly once in the life of the     *)
(* process: cancel is never called a second time, a cancelled context      *)
(* stays cancelled, and once any signal (interrupt or termination) has     *)
(* been delivered, cancel gets called.                                     *)
(***************************************************************************)
C22_CancelExactlyOnce ==
    /\ [](cancels <= 1)
    /\ [][ctxDone => ctxDone']_vars
    /\ [](lastSig # "none" => <>(cancels = 1))

\* A later signal waits in sigs after the one cancel: nobody receives it.
C22_Witness ==
    /\ cancels = 1
    /\ ctxDone
    /\ relay = "done"
    /\ sigs = <<"SIGINT">>

(***************************************************************************)
(* C23.  Every query is given the shared context, so once that context is  *)
(* cancelled a query in progress or started afterwards does not block and  *)
(* does not answer: the step that ends it hands Run (nil, err) with an     *)
(* error, and Run returns that error (unless the process is killed first). *)
(***************************************************************************)
C23_CancelledFetchFailsFast ==
    /\ [][(pc = "fetch" /\ ctxDone /\ pc' \notin {"fetch", "killed"})
            => (pc' = "ret" /\ fn' = NilFn /\ err' # NilErr)]_vars
    /\ []((pc = "fetch" /\ ctxDone)
            => <>(pc = "killed" \/ (pc = "done" /\ returned # NilErr)))

\* Run returned context.Canceled out of the query of Views, which sets no
\* deadline of its own.
C23_Witness ==
    /\ pc = "done"
    /\ returned = "context.Canceled"
    /\ ctxDone
    /\ LastEvent = Event("fetched", "Views", 0, "context.Canceled")

(***************************************************************************)
(* C24.  Every query of an action runs under a context with a deadline:    *)
(* DeadlineExceeded is among the ways each pending query can end, and so   *)
(* no query stays pending for ever, even when the database never answers   *)
(* and no signal comes.                                                    *)
(***************************************************************************)
C24_EveryFetchHasDeadline ==
    /\ [](pc = "fetch" => "context.DeadlineExceeded" \in CtxErrors(fn))
    /\ [](pc = "fetch" => <>(pc # "fetch"))

\* The query of Views is pending and no signal has been delivered.
C24_Witness ==
    /\ pc = "fetch"
    /\ fn = "Views"
    /\ lastSig = "none"
    /\ ~ctxDone

(***************************************************************************)
(* C25.  When newDBCFG or sql.Open fails, whatever *debug is, the process  *)
(* exits with code 1 and Run is never started; when Run ends by a user's   *)
(* quit at a prompt or by the cancelled context, the process exits with    *)
(* code 0.                                                                 *)
(***************************************************************************)
C25_ExitCodes ==
    /\ (startup.cfg # NilErr \/ startup.open # NilErr)
          => (pc = "exit" /\ exitCode = "1" /\ fn = NilFn /\ cycle = << >>)
    /\ (pc = "exit" /\ returned \in {"ErrInterrupt", "ErrEOF", "context.Canceled"})
          => exitCode = "0"

\* newDBCFG failed, *debug is off, and Run is at a prompt.
C25_Witness ==
    /\ startup.cfg # NilErr
    /\ ~debug
    /\ pc = "select"

(***************************************************************************)
(* C26.  The flag *debug alone decides what is logged: with it off nothing *)
(* is ever logged, neither at startup nor after Run; with it on, the error *)
(* Run returned is logged when the process ends, unless it is nil,         *)
(* context.Canceled or errFinished.                                        *)
(***************************************************************************)
C26_DebugAloneControlsLog ==
    /\ ~debug => logged = << >>
    /\ (debug /\ pc = "exit" /\ exitCode = "0")
          => ((returned \in Range(logged))
                <=> returned \notin {NilErr, "context.Canceled", errFinished})

\* part_001 with *debug off met a failing ping.
C26_Witness ==
    /\ prog = "part_001"
    /\ ~debug
    /\ startup.ping # NilErr
    /\ pc = "exit"

(***************************************************************************)
(* C27.  Run hands back the error of the failing call as it is, so a       *)
(* user's cancel of a prompt stays apart from every other failure: when    *)
(* the last prompt was cancelled by the user Run returns that very error,  *)
(* and when Run ends for any other reason (a failed or timed-out query, a  *)
(* terminal failure of the prompt) it returns none of the cancel errors.   *)
(***************************************************************************)
\* What promptui returns for ^C and for ^D.
UserCancelErrors == {"ErrInterrupt", "ErrEOF"}

C27_CancelIsDistinct ==
    /\ (pc = "done" /\ selRes.err \in UserCancelErrors) => returned = selRes.err
    /\ (pc = "done" /\ selRes.err \notin UserCancelErrors)
          => returned \notin UserCancelErrors

\* Run returned the interrupt of an action's prompt.
C27_Witness ==
    /\ pc = "done"
    /\ selBy = "selecter"
    /\ selRes.err = "ErrInterrupt"
    /\ returned = "ErrInterrupt"

\* Run returned the terminal failure of an action's prompt.
C27_WitnessIO ==
    /\ pc = "done"
    /\ selBy = "selecter"
    /\ selRes.err = "ErrSelectIO"
    /\ returned = "ErrSelectIO"

\* Run returned the timeout of a query.
C27_WitnessTimeout ==
    /\ pc = "done"
    /\ fetchRes.err = "context.DeadlineExceeded"
    /\ returned = "context.DeadlineExceeded"

(***************************************************************************)
(* C28.  One query per visit of an action: each invocation of an action    *)
(* StateFn starts exactly one query; after a query or a prompt failed no   *)
(* further query or prompt follows (no retry); and the list an action      *)
(* shows is built from the rows its own query just returned, on every      *)
(* visit, nothing being kept from an earlier one.                          *)
(***************************************************************************)
\* The invocations of action StateFns since the root was last invoked.
ActionCalls == SelectSeq(Calls, LAMBDA f : f \in ActionFns)

C28_OneFetchPerVisit ==
    /\ [](Len(Ops("fetch")) = Len(ActionCalls))
    /\ [](\A i, j \in 1 .. Len(cycle) :
             (i < j /\ cycle[i].e # NilErr) => cycle[j].op \notin {"fetch", "select"})
    /\ [][(pc = "call" /\ fn \in ActionFns) => pc' = "fetch"]_vars
    /\ [][(pc = "fetch" /\ pc' = "select")
            => \/ Len(selItems') = fetchRes'.rows
               \/ fetchRes'.rows = 0 /\ selItems' = <<BackView>>]_vars

\* The one query of this visit of Tables gave one row, and one row is shown.
C28_Witness ==
    /\ pc = "select"
    /\ selBy = "selecter"
    /\ fn = "Tables"
    /\ fetchRes.rows = 1
    /\ Len(selItems) = 1
    /\ Len(Ops("fetch")) = 1

\* The query of Tables is pending while the last result is still the two
\* rows of an earlier visit.
C28_WitnessRevisit ==
    /\ pc = "fetch"
    /\ fn = "Tables"
    /\ fetchRes = [rows |-> 2, err |-> NilErr]

(***************************************************************************)
(* C29.  The tree is never modified after startup: the root StateFn stays  *)
(* the same, and every menu prompt, on every visit, offers the children    *)
(* the menu was built with, the same names in the same order.              *)
(***************************************************************************)
\* The children each menu has at startup.
TreeAtStartup(f) ==
    CASE f = "startState"   -> <<exploreState, playgroundState>>
      [] f = "exploreState" -> <<schemaState, tableState, viewState, statsState>>
      [] f = "schemaState"  -> schemaStates
      [] f = "viewState"    -> viewStates
      [] f = "statsState"   -> statStates

C29_TreeIsImmutable ==
    /\ [][root' = root]_vars
    /\ []((pc = "select" /\ selBy = "selectState") => selItems = TreeAtStartup(fn))

\* The root menu is shown again after an action was visited and answered.
C29_Witness ==
    /\ pc = "select"
    /\ selBy = "selectState"
    /\ fn = "startState"
    /\ fetchRes.rows > 0
    /\ selItems = <<exploreState, playgroundState>>

(***************************************************************************)
(* C30.  Between two invocations of the root menu Run opens at most three  *)
(* menu prompts (the root's, Explore's, then that of Schemas, Views or     *)
(* Stats), runs at most one query and opens at most one action prompt, and *)
(* the query comes after every menu prompt of the cycle.                   *)
(***************************************************************************)
\* The menus whose prompt was opened in this cycle, in order.
MenuPrompts ==
    LET sels == SelectSeq(cycle, LAMBDA ev : ev.op = "select" /\ ev.who \in MenuFns)
    IN  [k \in 1 .. Len(sels) |-> sels[k].who]

\* The action prompts opened in this cycle.
ActionPrompts == SelectSeq(cycle, LAMBDA ev : ev.op = "select" /\ ev.who \in ActionFns)

C30_CycleIsBounded ==
    /\ Len(MenuPrompts) <= 3
    /\ Len(MenuPrompts) >= 1 => MenuPrompts[1] = "startState"
    /\ Len(MenuPrompts) >= 2 => MenuPrompts[2] = "exploreState"
    /\ Len(MenuPrompts) >= 3 => MenuPrompts[3] \in {"schemaState", "viewState", "statsState"}
    /\ Len(Ops("fetch")) <= 1
    /\ Len(ActionPrompts) <= 1
    /\ \A i, j \in 1 .. Len(cycle) :
          (cycle[i].op = "fetch" /\ cycle[j].op = "select" /\ cycle[j].who \in MenuFns)
             => j < i

\* A longest cycle: three menu prompts, then the query, then the action's
\* prompt.
C30_Witness ==
    /\ root = "startState"
    /\ Len(MenuPrompts) = 3
    /\ Len(Ops("fetch")) = 1
    /\ Len(ActionPrompts) = 1
    /\ pc = "select"

(***************************************************************************)
(* C31.  When every prompt and every query returns in the end, Run on the  *)
(* shipped tree always comes, from wherever it is, either to its return    *)
(* with an error or to the root menu's prompt again: it never stays for    *)
(* ever inside a sub-menu or an action.                                    *)
(***************************************************************************)
\* The prompt of the root menu is open.
RootPrompt == pc = "select" /\ selBy = "selectState" /\ fn = root

C31_BackToRootOrReturn ==
    []<>(RootPrompt \/ (pc = "done" /\ returned # NilErr))

\* Run is at the prompt of an action three menus down.
C31_Witness ==
    /\ pc = "select"
    /\ selBy = "selecter"
    /\ fn = "TablesEmpty"
    /\ Calls = <<"startState", "exploreState", "statsState", "TablesEmpty">>

(***************************************************************************)
(* C32.  PlayGround does nothing: its StateFn returns (nil, nil) having    *)
(* run no query and opened no prompt, Run bounces to the root, and the     *)
(* next thing that happens is the root menu's prompt.                      *)
(***************************************************************************)
\* The last thing logged is the invocation of PlayGround.
AfterPlayground == LastEvent = Event("call", "playgroundState", 0, NilErr)

C32_PlaygroundBouncesToRoot ==
    /\ [][(pc = "call" /\ fn = "playgroundState")
            => /\ pc' = "ret" /\ fn' = NilFn /\ err' = NilErr
               /\ cycle' = Append(cycle, Event("call", "playgroundState", 0, NilErr))
               /\ fetchRes' = fetchRes /\ selRes' = selRes]_vars
    /\ [][(AfterPlayground /\ pc = "ret") => (pc' = "call" /\ fn' = root)]_vars
    /\ [][(AfterPlayground /\ pc = "call" /\ root = "startState")
            => /\ pc' = "select" /\ selBy' = "selectState"
               /\ selLabel' = "Options" /\ selItems' = startStates
               /\ Ops("fetch")' = << >>]_vars

\* PlayGround was chosen at the root prompt and has returned; Run has
\* bounced to the root, which is about to be invoked.
C32_Witness ==
    /\ root = "startState"
    /\ AfterPlayground
    /\ Calls = <<"startState", "playgroundState">>
    /\ pc = "call"
    /\ fn = root

(***************************************************************************)
(* C33.  Run over a root menu without children never returns and never     *)
(* waits for a key: every invocation of the root yields (nil, nil), Run    *)
(* bounces to the root and invokes it again, forever.  With the shipped    *)
(* root every invocation of the root opens a prompt.                       *)
(***************************************************************************)
C33_EmptyRootLivelock ==
    /\ [](root = "emptyMenu" => pc \in {"call", "ret"})
    /\ [][(root = "emptyMenu" /\ pc = "call")
            => (fn = root /\ pc' = "ret" /\ fn' = NilFn /\ err' = NilErr)]_vars
    /\ [][(root = "emptyMenu" /\ pc = "ret") => (pc' = "call" /\ fn' = root)]_vars
    /\ []<>(root = "emptyMenu" => pc = "call")
    /\ []<>(root = "emptyMenu" => pc = "ret")
    /\ [][(root = "startState" /\ pc = "call" /\ fn = root)
            => (pc' = "select" /\ selBy' = "selectState")]_vars

\* The root without children has returned (nil, nil) to Run.
C33_Witness ==
    /\ root = "emptyMenu"
    /\ pc = "ret"
    /\ fn = NilFn
    /\ err = NilErr
    /\ cycle = <<Event("call", "emptyMenu", 0, NilErr)>>

(***************************************************************************)
(* C34.  A save keeps the stored profiles: once saveNewConfig(c) has       *)
(* succeeded on a file holding the list L, the file holds L with c as its  *)
(* last element, and that is the list configFile() returns from it, after  *)
(* any number of saves.  On first use, with no config.json, configFile()   *)
(* creates the file and returns an empty list and no error, unless the     *)
(* operating system refuses a call.                                        *)
(***************************************************************************)
C34_SavePreservesProfiles ==
    /\ []((cfgRet.op = "configFile" /\ cfgRet.err = NilErr /\ saved.ok)
            => cfgRet.cfgs = saved.list)
    /\ [][(cfgRet'.op = "saveNewConfig" /\ cfgRet'.err = NilErr /\ saved.ok /\ saved' # saved)
            => /\ saved'.ok
               /\ saved'.list = Append(saved.list, cfgRet'.arg[1])
               /\ Decode(configJSON'.bytes) = Parsed(saved'.list, Len(configJSON'.bytes) + 1)]_vars
    /\ [][(~configJSON.exists /\ cfgRet'.op = "configFile" /\ cfgRet'.fault = "none")
            => /\ configJSON'.exists
               /\ cfgRet'.err = NilErr
               /\ cfgRet'.cfgs = << >>]_vars

\* configFile() has returned two profiles saved one after the other, the
\* first of them full of the characters JSON gives a meaning to.
C34_Witness ==
    /\ cfgRet.op = "configFile"
    /\ cfgRet.err = NilErr
    /\ saved.ok
    /\ Len(saved.list) = 2
    /\ saved.list[1].Name = <<"[", "{">>
    /\ saved.list[2].Name = <<"R", "&", "D">>
    /\ cfgRet.cfgs = saved.list

==========================================================================
